---- MODULE Spec2Model ----
(***************************************************************************)
(* The practice-session Vuex module of Material-Math                       *)
(* (packages/app/src/store/practice/practice.ts) as a state machine.       *)
(*                                                                         *)
(* `state` is the module's PracticeState.  The browser's timer table is    *)
(* `timers` (the ids of the live setInterval timers) and `pending` (the    *)
(* number of setTimeout callbacks scheduled and not yet run).  Mutations   *)
(* are operators on a PracticeState record; dispatched actions, the        *)
(* interval callback and the timeout callback are the actions of Next.     *)
(* JavaScript runs each of them to completion, so each is one step.        *)
(***************************************************************************)
EXTENDS Integers, Sequences, FiniteSets

(* ------------------------------ bounds -------------------------------- *)
\* cap on streak / practiceCorrectQuestionCount (both grow without limit)
MaxCount == 2
\* cap on the number of scheduled, not yet run, feedback timeouts
MaxPending == 2
\* cap on the number of simultaneously live setInterval timers
MaxTimers == 2
\* cap on how far below zero practiceTimeLeft is followed
MaxNeg == 1

(* ------------------------- program constants -------------------------- *)
DefaultPracticeQuestionCount == 10
DefaultPracticeTime == 10

TIME == "TIME"
QUESTIONS == "QUESTIONS"
PracticeModes == {TIME, QUESTIONS}

Addition == "Addition"
Subtraction == "Subtraction"
OperatorChoices == {Addition}

\* inputs of setPracticeTime and setPracticeQuestionCount
TimeChoices == {0, 10}
QuestionCountChoices == {5}

\* inputs of init: the PracticeOptions a caller passes
OptionChoices ==
  { [difficulty |-> "Hard", operators |-> {Addition}, challengeTypes |-> {"Expression"}],
    [difficulty |-> "Normal", operators |-> {}, challengeTypes |-> {}] }

(* ------------------- challenges and the answer check ------------------ *)
\* state.question is modelled by its infix text; `{} as ChallengeModel`
\* has no infix, which the template string renders as "undefined".
NoQuestion == "undefined"

\* what generateExpressionChallenge may return (its infix text)
generateExpressionChallenge(difficulty, operators) == {"1+1", "1+2"}

\* texts a user may type with setAnswer: a number or an unfinished
\* expression (the empty text is what a submission leaves behind)
AnswerChoices == {"2"}

\* mathjs parses and evaluates an expression, or throws
WellFormed(expr) == expr \in {"2", "1+1", "1+2"}

Value(expr) ==
  CASE expr = "2" -> 2
    [] expr = "1+1" -> 2
    [] expr = "1+2" -> 3

\* evaluate(`${answer} == ${infix}`) throws when either side does not
\* parse or names an undefined symbol
evaluateThrows(answer, infix) == ~WellFormed(answer) \/ ~WellFormed(infix)

evaluate(answer, infix) == Value(answer) = Value(infix)

(* ----------------------------- variables ------------------------------ *)
VARIABLES
  state,      \* PracticeState
  timers,     \* ids of the live setInterval timers
  pending,    \* number of scheduled setTimeout callbacks not yet run
  threw,      \* history: the last step ended by an uncaught exception
  countdown,  \* history: the session the last init configured (see below)
  run         \* history: consecutive correct submissions since counters were 0

vars == <<state, timers, pending, threw, countdown, run>>

\* no countdown armed by a single init is being followed
NoCountdown == [T |-> -1, ticks |-> 0]
\* the last init configured a session in the question-count mode, and
\* nothing but ticks of interval timers has happened since
QuestionSession == [T |-> -2, ticks |-> 0]
\* an incorrect submission has broken the run of correct submissions
NoRun == 0 - 1

(* ----------------------------- mutations ------------------------------ *)
SET_QUESTION(s, question) == [s EXCEPT !.question = question]

SET_ANSWER(s, answer) == [s EXCEPT !.answer = answer]

SET_STREAK(s, streak) == [s EXCEPT !.streak = streak]

SET_PRACTICE_OPTIONS(s, options) ==
  [s EXCEPT !.operators = options.operators,
            !.challengeTypes = options.challengeTypes,
            !.difficulty = options.difficulty,
            !.practiceTimeLeft = s.practiceTime]

\* faulty variant: the flag is stored negated
SET_SHOWING_FEEDBACK_negated(s, isShowingFeedback) ==
  [s EXCEPT !.showingFeedback = ~isShowingFeedback]

\* faulty variant: the payload is ignored and the flag is always raised
SET_SHOWING_FEEDBACK_ignoresPayload(s, isShowingFeedback) ==
  [s EXCEPT !.showingFeedback = TRUE]

SET_SHOWING_FEEDBACK(s, isShowingFeedback) ==
  [s EXCEPT !.showingFeedback = isShowingFeedback]

\* The operators and challengeTypes arrays are kept as the sets of their
\* members: push adds a member, filter removes every copy of one, and
\* nothing in the module reads an array's order or multiplicities.
setOperatorEnabled(s, operator) ==
  [s EXCEPT !.operators = @ \cup {operator}]

setOperatorDisabled(s, operator) ==
  [s EXCEPT !.operators = {op \in @ : op # operator}]

SET_PRACTICE_MODE(s, mode) == [s EXCEPT !.practiceMode = mode]

SET_PRACTICE_QUESTION_COUNT(s, questionCount) ==
  [s EXCEPT !.practiceQuestionCount = questionCount]

SET_PRACTICE_TIME(s, time) == [s EXCEPT !.practiceTime = time]

SET_PRACTICE_TIME_LEFT(s, time) == [s EXCEPT !.practiceTimeLeft = time]

\* faulty variant: the payload (the count plus one) is added instead of 1
SET_PRACTICE_CORRECT_QUESTION_COUNT_addsPayload(s, count) ==
  [s EXCEPT !.practiceCorrectQuestionCount = @ + count]

\* the payload is ignored: the mutation increments
SET_PRACTICE_CORRECT_QUESTION_COUNT(s, count) ==
  [s EXCEPT !.practiceCorrectQuestionCount = @ + 1]

SET_PRACTICE_TIMER_ID(s, id) == [s EXCEPT !.practiceTimerId = id]

\* faulty variant: the streak is not reset
RESET_PRACTICE_SESSION_keepsStreak(s) ==
  [s EXCEPT !.practiceCorrectQuestionCount = 0,
            !.practiceTimerId = 0,
            !.practiceTimeLeft = 0]

\* faulty variant: the time left is not reset
RESET_PRACTICE_SESSION_keepsTimeLeft(s) ==
  [s EXCEPT !.streak = 0,
            !.practiceCorrectQuestionCount = 0,
            !.practiceTimerId = 0]

\* faulty variant: the configured session length is reset with the time left
RESET_PRACTICE_SESSION_resetsPracticeTime(s) ==
  [s EXCEPT !.streak = 0,
            !.practiceCorrectQuestionCount = 0,
            !.practiceTimerId = 0,
            !.practiceTimeLeft = 0,
            !.practiceTime = 0]

RESET_PRACTICE_SESSION(s) ==
  [s EXCEPT !.streak = 0,
            !.practiceCorrectQuestionCount = 0,
            !.practiceTimerId = 0,
            !.practiceTimeLeft = 0]

(* --------------------------- browser timers --------------------------- *)
\* setInterval returns a positive id that names no live timer.  The module
\* only stores the id and hands it back to clearInterval, so which unused
\* id it gets cannot be observed: the model returns the least one.
setInterval(live) == CHOOSE id \in 1..MaxTimers : id \notin live /\ \A j \in 1..(id - 1) : j \in live

\* faulty variant: a live timer is cancelled whatever id is given
clearInterval_anyTimer(live, id) ==
  IF live = {} THEN live ELSE live \ {CHOOSE t \in live : TRUE}

\* clearInterval of an id that names no live timer does nothing
clearInterval(live, id) == live \ {id}

(* ------------------------------- Init --------------------------------- *)
Init ==
  /\ state = [question |-> NoQuestion,
              difficulty |-> "Normal",
              operators |-> {Addition, Subtraction},
              challengeTypes |-> {},
              answer |-> "",
              streak |-> 0,
              showingFeedback |-> FALSE,
              practiceMode |-> TIME,
              practiceQuestionCount |-> DefaultPracticeQuestionCount,
              practiceTime |-> DefaultPracticeTime,
              practiceTimeLeft |-> 0,
              practiceCorrectQuestionCount |-> 0,
              practiceTimerId |-> 0]
  /\ timers = {}
  /\ pending = 0
  /\ threw = FALSE
  /\ countdown = NoCountdown
  /\ run = 0

(* ------------------------------ actions ------------------------------- *)
\* history: a step that is neither init, a tick, a submission nor
\* finishPracticeSession ends the following of a question-count session and
\* leaves a countdown as it is
countdownKept ==
  countdown' = IF countdown = QuestionSession THEN NoCountdown ELSE countdown

\* init(context, options)
initWith(options) ==
  LET s1 == SET_PRACTICE_OPTIONS(state, options) IN
  /\ IF s1.practiceMode = TIME
       THEN /\ Cardinality(timers) < MaxTimers
            /\ LET practiceTimerId == setInterval(timers) IN
                 /\ timers' = timers \cup {practiceTimerId}
                 /\ state' = SET_PRACTICE_TIMER_ID(s1, practiceTimerId)
       ELSE /\ timers' = timers
            /\ state' = s1
  /\ threw' = FALSE
  /\ countdown' = IF s1.practiceMode = TIME
                    THEN IF timers = {}
                           THEN [T |-> s1.practiceTime, ticks |-> 0]
                           ELSE NoCountdown
                    ELSE QuestionSession
  /\ UNCHANGED <<pending, run>>

init == \E options \in OptionChoices : initWith(options)

\* finishPracticeSession(context): what it does to the timer table and
\* to the state
finishPracticeSession_timers(live, s) == clearInterval(live, s.practiceTimerId)

finishPracticeSession_state(s) == RESET_PRACTICE_SESSION(s)

\* finishPracticeSession dispatched by the caller
finishPracticeSession ==
  /\ timers' = finishPracticeSession_timers(timers, state)
  /\ state' = finishPracticeSession_state(state)
  /\ threw' = FALSE
  /\ countdown' = NoCountdown
  /\ run' = 0
  /\ UNCHANGED pending

\* practiceTimeTick(context), the callback of every live interval timer
practiceTimeTick ==
  /\ timers # {}
  /\ state.practiceTimeLeft - 1 >= -MaxNeg
  /\ LET newTimeLeft == state.practiceTimeLeft - 1 IN
       IF newTimeLeft = 0
         THEN /\ timers' = finishPracticeSession_timers(timers, state)
              /\ state' = finishPracticeSession_state(state)
              /\ run' = 0
         ELSE /\ state' = SET_PRACTICE_TIME_LEFT(state, newTimeLeft)
              /\ UNCHANGED <<timers, run>>
  /\ threw' = FALSE
  /\ countdown' = IF countdown \in {NoCountdown, QuestionSession}
                    THEN countdown
                    ELSE [countdown EXCEPT !.ticks = @ + 1]
  /\ UNCHANGED pending

\* newQuestion(context)
newQuestion ==
  /\ \E question \in generateExpressionChallenge(state.difficulty, state.operators) :
       state' = SET_QUESTION(state, question)
  /\ threw' = FALSE
  /\ countdownKept
  /\ UNCHANGED <<timers, pending, run>>

\* setAnswer(context, answer)
setAnswer ==
  /\ \E answer \in AnswerChoices : state' = SET_ANSWER(state, answer)
  /\ threw' = FALSE
  /\ countdownKept
  /\ UNCHANGED <<timers, pending, run>>

\* faulty variant: the answer is not cleared
onCorrect_state_keepsAnswer(s, question) ==
  LET s1 == SET_PRACTICE_CORRECT_QUESTION_COUNT(s, s.practiceCorrectQuestionCount + 1)
      s2 == SET_STREAK(s1, s1.streak + 1)
      s4 == SET_QUESTION(s2, question)
  IN  SET_SHOWING_FEEDBACK(s4, TRUE)

\* onCorrect(context), with the challenge its newQuestion draws
onCorrect_state(s, question) ==
  LET s1 == SET_PRACTICE_CORRECT_QUESTION_COUNT(s, s.practiceCorrectQuestionCount + 1)
      s2 == SET_STREAK(s1, s1.streak + 1)
      s3 == SET_ANSWER(s2, "")
      s4 == SET_QUESTION(s3, question)
  IN  SET_SHOWING_FEEDBACK(s4, TRUE)

\* faulty variant: the correct count is reset with the streak
onIncorrect_state_resetsCount(s) ==
  LET s1 == SET_STREAK(s, 0)
      s2 == SET_ANSWER(s1, "")
      s3 == [s2 EXCEPT !.practiceCorrectQuestionCount = 0]
  IN  SET_SHOWING_FEEDBACK(s3, TRUE)

\* onIncorrect(context)
onIncorrect_state(s) ==
  LET s1 == SET_STREAK(s, 0)
      s2 == SET_ANSWER(s1, "")
  IN  SET_SHOWING_FEEDBACK(s2, TRUE)

\* onCorrect, dispatched by the caller or by checkAnswer; its setTimeout
\* adds one pending callback
onCorrect ==
  /\ state.practiceCorrectQuestionCount < MaxCount
  /\ state.streak < MaxCount
  /\ pending < MaxPending
  /\ \E question \in generateExpressionChallenge(state.difficulty, state.operators) :
       state' = onCorrect_state(state, question)
  /\ pending' = pending + 1
  /\ threw' = FALSE
  /\ countdown' = NoCountdown
  /\ run' = IF state.streak = 0 /\ state.practiceCorrectQuestionCount = 0
              THEN 1
              ELSE IF run = NoRun THEN NoRun ELSE run + 1
  /\ UNCHANGED timers

\* onIncorrect, dispatched by the caller or by checkAnswer
onIncorrect ==
  /\ pending < MaxPending
  /\ state' = onIncorrect_state(state)
  /\ pending' = pending + 1
  /\ threw' = FALSE
  /\ countdown' = NoCountdown
  /\ run' = IF state.practiceCorrectQuestionCount = 0 THEN 0 ELSE NoRun
  /\ UNCHANGED timers

\* checkAnswer(context): evaluate throws, or is true, or is false
checkAnswer ==
  \/ /\ evaluateThrows(state.answer, state.question)
     /\ threw' = TRUE
     /\ countdownKept
     /\ UNCHANGED <<state, timers, pending, run>>
  \/ /\ ~evaluateThrows(state.answer, state.question)
     /\ evaluate(state.answer, state.question)
     /\ onCorrect
  \/ /\ ~evaluateThrows(state.answer, state.question)
     /\ ~evaluate(state.answer, state.question)
     /\ onIncorrect

\* the callback of setTimeout(..., 350) scheduled by a submission
feedbackTimeout ==
  /\ pending > 0
  /\ pending' = pending - 1
  /\ state' = SET_SHOWING_FEEDBACK(state, FALSE)
  /\ threw' = FALSE
  /\ countdownKept
  /\ UNCHANGED <<timers, run>>

\* setPracticeMode(context, mode)
setPracticeMode ==
  /\ \E mode \in PracticeModes : state' = SET_PRACTICE_MODE(state, mode)
  /\ threw' = FALSE
  /\ countdownKept
  /\ UNCHANGED <<timers, pending, run>>

\* setPracticeQuestionCount(context, questionCount)
setPracticeQuestionCount ==
  /\ \E questionCount \in QuestionCountChoices :
       state' = SET_PRACTICE_QUESTION_COUNT(state, questionCount)
  /\ threw' = FALSE
  /\ countdownKept
  /\ UNCHANGED <<timers, pending, run>>

\* setPracticeTime(context, time)
setPracticeTime ==
  /\ \E time \in TimeChoices : state' = SET_PRACTICE_TIME(state, time)
  /\ threw' = FALSE
  /\ countdownKept
  /\ UNCHANGED <<timers, pending, run>>

\* a commit of setOperatorEnabled
commitSetOperatorEnabled ==
  /\ \E operator \in OperatorChoices : state' = setOperatorEnabled(state, operator)
  /\ threw' = FALSE
  /\ countdownKept
  /\ UNCHANGED <<timers, pending, run>>

\* a commit of setOperatorDisabled
commitSetOperatorDisabled ==
  /\ \E operator \in OperatorChoices : state' = setOperatorDisabled(state, operator)
  /\ threw' = FALSE
  /\ countdownKept
  /\ UNCHANGED <<timers, pending, run>>

Next ==
  \/ init
  \/ practiceTimeTick
  \/ newQuestion
  \/ setAnswer
  \/ checkAnswer
  \/ onCorrect
  \/ onIncorrect
  \/ feedbackTimeout
  \/ setPracticeMode
  \/ setPracticeQuestionCount
  \/ setPracticeTime
  \/ finishPracticeSession
  \/ commitSetOperatorEnabled
  \/ commitSetOperatorDisabled

Spec == Init /\ [][Next]_vars

\* the browser runs every scheduled timeout callback
LiveSpec == Spec /\ WF_vars(feedbackTimeout)

(* ------------------------------ claims -------------------------------- *)
\* shorthand: a tick whose decrement reaches 0 and so finishes the session
TickFinishes == practiceTimeTick /\ state.practiceTimeLeft - 1 = 0

\* C1: in every reachable state at most one setInterval timer is live.
OneTickSource == Cardinality(timers) <= 1

\* C2: immediately after every init, practiceTimeLeft = practiceTime and
\* streak = practiceCorrectQuestionCount = 0.
InitStartsFresh ==
  [][init => /\ state'.practiceTimeLeft = state'.practiceTime
             /\ state'.streak = 0
             /\ state'.practiceCorrectQuestionCount = 0]_vars

\* C3: after N consecutive correct submissions from counters 0, with no
\* finish in between, streak = N and practiceCorrectQuestionCount = N; an
\* incorrect submission sets streak to 0 and leaves the correct count alone.
ConsecutiveCorrect ==
  [][/\ run' # NoRun =>
          /\ state'.streak = run'
          /\ state'.practiceCorrectQuestionCount = run'
     /\ onIncorrect =>
          /\ state'.streak = 0
          /\ state'.practiceCorrectQuestionCount = state.practiceCorrectQuestionCount]_vars

\* two correct submissions in a row from counters 0
ConsecutiveCorrectWitness == run = 2 /\ state.streak = 2

\* C4: from every reachable state, finishPracticeSession twice gives the
\* state and the live timers that finishPracticeSession once gives.
FinishIdempotent ==
  LET t1 == finishPracticeSession_timers(timers, state)
      s1 == finishPracticeSession_state(state)
      t2 == finishPracticeSession_timers(t1, s1)
      s2 == finishPracticeSession_state(s1)
  IN  t2 = t1 /\ s2 = s1

\* finishPracticeSession has run (the timer id is 0 again) while a timer an
\* earlier init armed is still live, so a second call has a timer to spare
FinishIdempotentWitness == state.practiceTimerId = 0 /\ timers # {}

\* C5: a countdown armed by one init in TIME mode with practiceTime = T >= 1
\* and no submissions: after k < T ticks practiceTimeLeft = T - k and the
\* timer still runs; after the T-th tick streak, correct count, time left and
\* timer id are 0 and no timer is live.
CountdownRuns ==
  (countdown # NoCountdown /\ countdown.T >= 1) =>
    IF countdown.ticks < countdown.T
      THEN /\ state.practiceTimeLeft = countdown.T - countdown.ticks
           /\ state.practiceTimerId # 0
           /\ timers = {state.practiceTimerId}
      ELSE /\ countdown.ticks = countdown.T
           /\ state.streak = 0
           /\ state.practiceCorrectQuestionCount = 0
           /\ state.practiceTimeLeft = 0
           /\ state.practiceTimerId = 0
           /\ timers = {}

\* the T-th tick of a countdown has fired
CountdownRunsWitness ==
  countdown # NoCountdown /\ countdown.T >= 1 /\ countdown.ticks = countdown.T

\* C6: a countdown armed with practiceTime = 0 still runs before its first
\* tick and is terminated, timer cancelled, by its first tick.
ZeroTimeEndsOnFirstTick ==
  (countdown # NoCountdown /\ countdown.T = 0) =>
    IF countdown.ticks = 0
      THEN timers = {state.practiceTimerId} /\ state.practiceTimerId # 0
      ELSE /\ timers = {}
           /\ state.practiceTimerId = 0
           /\ state.practiceTimeLeft = 0

\* C7: after finishPracticeSession (called by the caller or by a tick) no
\* setInterval timer is live.
FinishStopsTicks ==
  [][(finishPracticeSession \/ TickFinishes) => timers' = {}]_vars

\* C8: showingFeedback, once true, becomes false again, and only a
\* submission makes it true.
FeedbackEnds ==
  /\ state.showingFeedback ~> ~state.showingFeedback
  /\ [][(~state.showingFeedback /\ state'.showingFeedback)
          => (onCorrect \/ onIncorrect)]_vars

\* two submissions overlap: feedback is showing and two callbacks are pending
FeedbackEndsWitness == state.showingFeedback /\ pending = 2

\* C9: finishPracticeSession sets streak, practiceCorrectQuestionCount,
\* practiceTimerId and practiceTimeLeft to 0, cancels at most the timer
\* practiceTimerId names, and changes nothing else.
FinishFrame ==
  [][(finishPracticeSession \/ TickFinishes) =>
       /\ state' = [state EXCEPT !.streak = 0,
                                 !.practiceCorrectQuestionCount = 0,
                                 !.practiceTimerId = 0,
                                 !.practiceTimeLeft = 0]
       /\ timers' = timers \ {state.practiceTimerId}
       /\ pending' = pending]_vars

\* finishPracticeSession has run on a session whose configuration differs
\* from the defaults in every field
FinishFrameWitness ==
  /\ state.practiceTimerId = 0
  /\ timers # {}
  /\ state.practiceMode = QUESTIONS
  /\ state.practiceTime = 0
  /\ state.practiceQuestionCount = 5
  /\ state.difficulty = "Hard"
  /\ state.operators = {Addition}
  /\ state.challengeTypes = {"Expression"}

\* C10: when evaluate fails on an answer it cannot parse, checkAnswer takes
\* the Incorrect path (streak 0, answer cleared, showingFeedback true, one
\* callback scheduled, correct count unchanged) and no error leaves it.
MalformedIsIncorrect ==
  [][(checkAnswer /\ ~WellFormed(state.answer) /\ WellFormed(state.question)) =>
       /\ ~threw'
       /\ state' = onIncorrect_state(state)
       /\ pending' = pending + 1]_vars

\* C11: init with an empty operator set is rejected: it stores no options
\* and arms no timer.
EmptyOperatorsRejected ==
  [][\A options \in OptionChoices :
       (options.operators = {} /\ initWith(options)) =>
         (state' = state /\ timers' = timers)]_vars

\* C12: while a session is active (practiceTimerId names its timer), no
\* commit of setOperatorEnabled / setOperatorDisabled leaves operators empty.
OperatorsStayNonEmpty ==
  [][(/\ commitSetOperatorEnabled \/ commitSetOperatorDisabled
      /\ state.practiceTimerId # 0
      /\ state.operators # {})
       => state'.operators # {}]_vars

\* C13: in every reachable state practiceTimeLeft <= practiceTime.
TimeLeftWithinTotal == state.practiceTimeLeft <= state.practiceTime

\* C14: in every reachable state practiceTimeLeft, streak and
\* practiceCorrectQuestionCount are all >= 0.
CountersNonNegative ==
  /\ state.practiceTimeLeft >= 0
  /\ state.streak >= 0
  /\ state.practiceCorrectQuestionCount >= 0

\* C15: a session that init configured in the question-count mode is not
\* terminated by a tick, whatever preceded that init.
QuestionSessionNotTimedOut ==
  [][countdown = QuestionSession => ~TickFinishes]_vars

\* C16: after init the current question is a generated challenge, not the
\* empty initial value.
InitIssuesChallenge == [][init => state'.question # NoQuestion]_vars

\* C17: a correct submission, in one step, adds 1 to
\* practiceCorrectQuestionCount and to streak, empties answer, replaces the
\* question by a generated challenge, raises showingFeedback and schedules
\* one callback; it changes no other field and no timer.
CorrectStep ==
  [][onCorrect =>
       /\ state' = [state EXCEPT
                      !.practiceCorrectQuestionCount = @ + 1,
                      !.streak = @ + 1,
                      !.answer = "",
                      !.question = state'.question,
                      !.showingFeedback = TRUE]
       /\ state'.question \in generateExpressionChallenge(state.difficulty, state.operators)
       /\ pending' = pending + 1
       /\ timers' = timers]_vars

\* a correct submission, checked by checkAnswer, has just been made in a
\* running session
CorrectStepWitness ==
  /\ run = 1
  /\ state.streak = 1
  /\ state.practiceCorrectQuestionCount = 1
  /\ state.answer = ""
  /\ state.showingFeedback
  /\ pending = 1
  /\ state.practiceTimerId # 0

\* C18: an incorrect submission sets streak to 0, empties answer, raises
\* showingFeedback (scheduling one callback) and changes no other field and
\* no timer.
IncorrectStep ==
  [][onIncorrect =>
       /\ state' = [state EXCEPT
                      !.streak = 0,
                      !.answer = "",
                      !.showingFeedback = TRUE]
       /\ pending' = pending + 1
       /\ timers' = timers]_vars

\* an incorrect submission has followed a correct one in a running session
IncorrectStepWitness ==
  /\ run = NoRun
  /\ state.streak = 0
  /\ state.practiceCorrectQuestionCount = 1
  /\ state.question # NoQuestion
  /\ state.answer = ""
  /\ state.showingFeedback
  /\ state.practiceTimerId # 0

\* C19: in every reachable state streak <= practiceCorrectQuestionCount.
StreakWithinCorrectCount ==
  state.streak <= state.practiceCorrectQuestionCount

\* a miss between two correct submissions: the streak is behind the count
StreakWithinCorrectCountWitness ==
  state.streak = 1 /\ state.practiceCorrectQuestionCount = 2

\* C20: whenever showingFeedback is true a callback is pending; every
\* submission schedules exactly one, and only a callback that runs removes
\* one.
FeedbackHasCallback ==
  [][/\ state'.showingFeedback => pending' > 0
     /\ (onCorrect \/ onIncorrect) => pending' = pending + 1
     /\ pending' < pending => (feedbackTimeout /\ pending' = pending - 1)]_vars

\* feedback is showing with one callback left after another has run, the
\* session having been finished in between
FeedbackHasCallbackWitness ==
  /\ state.showingFeedback
  /\ pending = 1
  /\ state.practiceTimerId = 0
  /\ timers # {}

====
